---- MODULE Spec2Model ----
(***************************************************************************)
(* Smart Bookmark App: the dashboard's bookmark list (DashboardClient),    *)
(* the remote bookmarks table and the realtime push feed that connects     *)
(* them.  Every tab in Tabs is a mounted DashboardClient of one user.      *)
(***************************************************************************)
EXTENDS Integers, Sequences, FiniteSets, TLC

VARIABLES
    open,       \* the tabs in which a DashboardClient is mounted and subscribed
    db,         \* rows of public.bookmarks (the remote table)
    nextId,     \* the next primary key / created_at the server hands out
    bookmarks,  \* bookmarks[t]: the useState list of tab t
    feed,       \* feed[t]: postgres_changes events in flight to tab t
    addReq,     \* addReq[t]: the pending response of tab t's insert call
    delReq,     \* delReq[t]: the pending responses of tab t's delete calls
    title,      \* title[t]: the useState text of the title input
    url,        \* url[t]: the useState text of the url input
    isAdding,   \* isAdding[t]: the useState flag of the add form
    toast,      \* toast[t]: the notification shown in tab t, or NoToast
    removed,    \* history: removed[t] = ids the DELETE handler took out of t's list
    untouched,  \* history: untouched[t] = no push event was handed to t and
                \*          t has sent no insert or delete call
    start,      \* SpecStore: the list the store started from
    log,        \* SpecStore: the events applied to the store so far
    joined,     \* the tabs whose postgres_changes channel is connected to the feed
    subs,       \* subs[t]: the channels tab t's effect created and has not removed
    search,     \* search[t]: the useState text of the search input
    card,       \* card[t][id]: showConfirm and isDeleting of the BookmarkCard of id
    tick        \* history: tick[t] flips with every step of a handler of tab t

vars == <<open, db, nextId, bookmarks, feed, addReq, delReq, title, url,
          isAdding, toast, removed, untouched, start, log,
          joined, subs, search, card, tick>>

----------------------------------------------------------------------------
(* Bounds and input sets *)

\* Number of rows the server creates in one run (seeded rows included).
MaxIds == 2

\* Number of events applied to the store in one run of SpecStore.
MaxLog == 3

\* Number of DELETE events applied to the store in one run of SpecDelete.
MaxDel == 2

Tabs == {"A", "B"}

\* The signed-in user of every tab (user.id).
User == "u1"

\* Another user of the application, signed in somewhere else.
Other == "u2"

Ids == 1..MaxIds

\* payload.old of a DELETE event that carries no primary key.
NoId == 0

NoToast == "none"

\* useState(false) twice: a BookmarkCard as it mounts.  calls is history: the
\* onDelete calls of the card that have not returned.
NewCard == [showConfirm |-> FALSE, isDeleting |-> FALSE, calls |-> 0]

\* Text is a sequence of one-character strings.
TitleInputs == { <<" ">>, <<" ", "a">> }

UrlInputs == { <<"a", ".", "c", "o">>,
               <<"j", "s", ":", "x", "(", "1", ")">> }

----------------------------------------------------------------------------
(* Text helpers used by handleAddBookmark *)

RECURSIVE TrimStart(_)
TrimStart(s) ==
    IF s # <<>> /\ Head(s) = " " THEN TrimStart(Tail(s)) ELSE s

RECURSIVE TrimEnd(_)
TrimEnd(s) ==
    IF s # <<>> /\ s[Len(s)] = " " THEN TrimEnd(SubSeq(s, 1, Len(s) - 1)) ELSE s

\* String.prototype.trim
Trim(s) == TrimEnd(TrimStart(s))

\* String.prototype.startsWith
StartsWith(s, p) == Len(s) >= Len(p) /\ SubSeq(s, 1, Len(p)) = p

Http == <<"h", "t", "t", "p", ":", "/", "/">>
Https == <<"h", "t", "t", "p", "s", ":", "/", "/">>

\* The index of the first occurrence of character c in s, or Len(s) + 1.
RECURSIVE IndexOf(_, _, _)
IndexOf(s, c, i) ==
    IF i > Len(s) THEN i ELSE IF s[i] = c THEN i ELSE IndexOf(s, c, i + 1)

Digits == {"0", "1", "2", "3", "4", "5", "6", "7", "8", "9"}
HostChars == {"a", "c", "o", "j", "s", "x", "h", "t", "p", ".", "-"} \cup Digits

\* new URL(str) succeeds and its protocol is http: or https:.  For a string
\* with a special scheme the parser needs a non-empty host without forbidden
\* code points and an all-digit port.
isValidUrl(str) ==
    LET scheme == IF StartsWith(str, Https) THEN Https
                  ELSE IF StartsWith(str, Http) THEN Http ELSE <<>>
        rest == SubSeq(str, Len(scheme) + 1, Len(str))
        auth == SubSeq(rest, 1, IndexOf(rest, "/", 1) - 1)
        host == SubSeq(auth, 1, IndexOf(auth, ":", 1) - 1)
        port == SubSeq(auth, Len(host) + 2, Len(auth))
    IN  /\ scheme # <<>>
        /\ host # <<>>
        /\ \A i \in 1..Len(host) : host[i] \in HostChars
        /\ \A i \in 1..Len(port) : port[i] \in Digits

\* finalUrl of handleAddBookmark: trimmed, https:// put in front when no scheme.
FinalUrl(str) ==
    LET u == Trim(str)
    IN  IF ~StartsWith(u, Http) /\ ~StartsWith(u, Https) THEN Https \o u ELSE u

----------------------------------------------------------------------------
(* The bookmark list *)

IdsOf(list) == { list[i].id : i \in 1..Len(list) }

\* The record of a row: the Bookmark interface.
Row(id, titleText, urlText) ==
    [id |-> id, user_id |-> User, title |-> titleText, url |-> urlText,
     created_at |-> id]

\* select("*").order("created_at", {ascending: false})
RECURSIVE OrderDesc(_)
OrderDesc(rows) ==
    IF rows = {} THEN <<>>
    ELSE LET r == CHOOSE x \in rows : \A y \in rows : y.created_at <= x.created_at
         IN  <<r>> \o OrderDesc(rows \ {r})

\* The rows a query of user uid sees, by the policy
\*   FOR SELECT USING (auth.uid() = user_id)
Visible(uid) == { r \in db : r.user_id = uid }

\* OnInsert without the exists check: every event is put in front.
OnInsertNoCheck(prev, new) == <<new>> \o prev

\* OnInsert as an overwriting upsert: an entry with the id takes the new row.
OnInsertOverwrite(prev, new) ==
    IF \E i \in 1..Len(prev) : prev[i].id = new.id
    THEN [i \in 1..Len(prev) |-> IF prev[i].id = new.id THEN new ELSE prev[i]]
    ELSE <<new>> \o prev

\* The INSERT handler's state update:
\*   prev.some((b) => b.id === payload.new.id) ? prev : [payload.new, ...prev]
OnInsert(prev, new) ==
    IF \E i \in 1..Len(prev) : prev[i].id = new.id
    THEN prev
    ELSE <<new>> \o prev

\* OnDelete that guesses: an old record without an id takes out the entry
\* with its url.
OnDeleteGuess(prev, old) ==
    IF old.id = NoId /\ "url" \in DOMAIN old
    THEN SelectSeq(prev, LAMBDA b : b.url # old.url)
    ELSE SelectSeq(prev, LAMBDA b : b.id # old.id)

\* OnDelete as splice(findIndex(...), 1): index -1 takes the last entry out.
OnDeleteSplice(prev, old) ==
    IF \E i \in 1..Len(prev) : prev[i].id = old.id
    THEN SelectSeq(prev, LAMBDA b : b.id # old.id)
    ELSE SubSeq(prev, 1, Len(prev) - 1)

\* The DELETE handler's state update:
\*   prev.filter((b) => b.id !== payload.old.id)
OnDelete(prev, old) ==
    SelectSeq(prev, LAMBDA b : b.id # old.id)

----------------------------------------------------------------------------
(* Initial state: DashboardPage renders each mounted tab from one snapshot of
   the table, and the subscription effect has run. *)

SeedTitle == <<"a">>
SeedUrl == Https \o <<"a", ".", "c", "o">>

\* Another title and address a row can have.
OtherTitle == <<"b">>
OtherUrl == Https \o <<"c", ".", "c", "o">>

\* The tabs in tabs are mounted; those in conn have their channel connected.
InitState(tabs, conn) ==
    \E n \in 0..MaxIds :
        /\ open = tabs
        /\ db = { Row(i, SeedTitle, SeedUrl) : i \in 1..n }
        /\ nextId = n + 1
        /\ bookmarks = [t \in Tabs |-> IF t \in tabs THEN OrderDesc(Visible(User))
                                                 ELSE <<>>]
        /\ feed = [t \in Tabs |-> {}]
        /\ addReq = [t \in Tabs |-> [st |-> "idle"]]
        /\ delReq = [t \in Tabs |-> {}]
        /\ title = [t \in Tabs |-> <<>>]
        /\ url = [t \in Tabs |-> <<>>]
        /\ isAdding = [t \in Tabs |-> FALSE]
        /\ toast = [t \in Tabs |-> NoToast]
        /\ removed = [t \in Tabs |-> {}]
        /\ untouched = [t \in Tabs |-> TRUE]
        /\ start = <<>>
        /\ log = <<>>
        /\ joined = conn
        /\ subs = [t \in Tabs |-> IF t \in tabs THEN 1 ELSE 0]
        /\ search = [t \in Tabs |-> <<>>]
        /\ card = [t \in Tabs |-> [i \in Ids |-> NewCard]]
        /\ tick = [t \in Tabs |-> FALSE]

InitWith(tabs) == InitState(tabs, tabs)

\* One tab is open.
Init == InitWith({"A"})

----------------------------------------------------------------------------
(* The remote store and its change feed *)

\* Publish without the filter of the subscription.
PublishAll(ev) == [t \in Tabs |-> IF t \in joined THEN feed[t] \cup {ev} ELSE feed[t]]

\* filter: `user_id=eq.${user.id}` on an event: the feed hands an INSERT to a
\* tab when the new row is the tab's user's.  The old record of a DELETE
\* carries the primary key only, so nothing is compared.
Passes(ev) == ev.type = "DELETE" \/ ev.new.user_id = User

\* Every tab with a connected channel gets the events that pass its filter
\* (all tabs are User's).
Publish(ev) ==
    [t \in Tabs |-> IF t \in joined /\ Passes(ev) THEN feed[t] \cup {ev} ELSE feed[t]]

InsertEvent(row) == [type |-> "INSERT", new |-> row]
DeleteEvent(id) == [type |-> "DELETE", old |-> [id |-> id]]

----------------------------------------------------------------------------
(* The add form *)

\* onChange of the title input.
TypeTitle(t, text) ==
    /\ t \in open
    /\ title' = [title EXCEPT ![t] = text]
    /\ UNCHANGED <<start, log, open, db, nextId, bookmarks, feed, addReq, delReq, url,
                   isAdding, toast, removed, untouched>>

\* onChange of the url input.
TypeUrl(t, text) ==
    /\ t \in open
    /\ url' = [url EXCEPT ![t] = text]
    /\ UNCHANGED <<start, log, open, db, nextId, bookmarks, feed, addReq, delReq, title,
                   isAdding, toast, removed, untouched>>

showToast(t, message) == [toast EXCEPT ![t] = message]

\* AddSubmit that validates finalUrl and sends the address as typed.
AddSubmitRaw(t, fails) ==
    /\ t \in open
    /\ ~isAdding[t]
    /\ IF Trim(title[t]) = <<>>
       THEN /\ toast' = showToast(t, "Please enter a title")
            /\ UNCHANGED <<db, nextId, feed, addReq, isAdding, untouched>>
       ELSE IF ~isValidUrl(FinalUrl(url[t]))
       THEN /\ toast' = showToast(t, "Please enter a valid URL")
            /\ UNCHANGED <<db, nextId, feed, addReq, isAdding, untouched>>
       ELSE /\ isAdding' = [isAdding EXCEPT ![t] = TRUE]
            /\ untouched' = [untouched EXCEPT ![t] = FALSE]
            /\ IF fails \/ nextId > MaxIds
               THEN /\ addReq' = [addReq EXCEPT ![t] =
                                     [st |-> "sent", error |-> TRUE, id |-> NoId]]
                    /\ UNCHANGED <<db, nextId, feed>>
               ELSE LET row == Row(nextId, Trim(title[t]), Trim(url[t]))
                    IN  /\ db' = db \cup {row}
                        /\ nextId' = nextId + 1
                        /\ feed' = Publish(InsertEvent(row))
                        /\ addReq' = [addReq EXCEPT ![t] =
                                         [st |-> "sent", error |-> FALSE, id |-> row.id]]
            /\ UNCHANGED toast
    /\ UNCHANGED <<start, log, open, bookmarks, delReq, title, url, removed>>

\* AddSubmit that sets the flag when the form is submitted, before it
\* validates: a refused submit leaves the flag set.
AddSubmitEarly(t, fails) ==
    /\ t \in open
    /\ ~isAdding[t]
    /\ isAdding' = [isAdding EXCEPT ![t] = TRUE]
    /\ IF Trim(title[t]) = <<>>
       THEN /\ toast' = showToast(t, "Please enter a title")
            /\ UNCHANGED <<db, nextId, feed, addReq, untouched>>
       ELSE IF ~isValidUrl(FinalUrl(url[t]))
       THEN /\ toast' = showToast(t, "Please enter a valid URL")
            /\ UNCHANGED <<db, nextId, feed, addReq, untouched>>
       ELSE /\ untouched' = [untouched EXCEPT ![t] = FALSE]
            /\ IF fails \/ nextId > MaxIds
               THEN /\ addReq' = [addReq EXCEPT ![t] =
                                     [st |-> "sent", error |-> TRUE, id |-> NoId]]
                    /\ UNCHANGED <<db, nextId, feed>>
               ELSE LET row == Row(nextId, Trim(title[t]), FinalUrl(url[t]))
                    IN  /\ db' = db \cup {row}
                        /\ nextId' = nextId + 1
                        /\ feed' = Publish(InsertEvent(row))
                        /\ addReq' = [addReq EXCEPT ![t] =
                                         [st |-> "sent", error |-> FALSE, id |-> row.id]]
            /\ UNCHANGED toast
    /\ UNCHANGED <<start, log, open, bookmarks, delReq, title, url, removed>>

\* handleAddBookmark up to its await: validation, then the insert call, which
\* the server commits (the row gets its id and created_at, the change is
\* published) or rejects.  Once MaxIds rows exist the server rejects every
\* further insert.
AddSubmit(t, fails) ==
    /\ t \in open
    /\ ~isAdding[t]
    /\ IF Trim(title[t]) = <<>>
       THEN /\ toast' = showToast(t, "Please enter a title")
            /\ UNCHANGED <<db, nextId, feed, addReq, isAdding, untouched>>
       ELSE IF ~isValidUrl(FinalUrl(url[t]))
       THEN /\ toast' = showToast(t, "Please enter a valid URL")
            /\ UNCHANGED <<db, nextId, feed, addReq, isAdding, untouched>>
       ELSE /\ isAdding' = [isAdding EXCEPT ![t] = TRUE]
            /\ untouched' = [untouched EXCEPT ![t] = FALSE]
            /\ IF fails \/ nextId > MaxIds
               THEN /\ addReq' = [addReq EXCEPT ![t] =
                                     [st |-> "sent", error |-> TRUE, id |-> NoId]]
                    /\ UNCHANGED <<db, nextId, feed>>
               ELSE LET row == Row(nextId, Trim(title[t]), FinalUrl(url[t]))
                    IN  /\ db' = db \cup {row}
                        /\ nextId' = nextId + 1
                        /\ feed' = Publish(InsertEvent(row))
                        /\ addReq' = [addReq EXCEPT ![t] =
                                         [st |-> "sent", error |-> FALSE, id |-> row.id]]
            /\ UNCHANGED toast
    /\ UNCHANGED <<start, log, open, bookmarks, delReq, title, url, removed>>

\* AddReturn with a retry: an insert call that failed is sent again.
AddReturnRetry(t) ==
    /\ t \in open
    /\ addReq[t].st = "sent"
    /\ IF addReq[t].error
       THEN /\ toast' = showToast(t, "Failed to add bookmark")
            /\ UNCHANGED <<title, url, isAdding, addReq>>
       ELSE /\ toast' = showToast(t, "Bookmark added!")
            /\ title' = [title EXCEPT ![t] = <<>>]
            /\ url' = [url EXCEPT ![t] = <<>>]
            /\ isAdding' = [isAdding EXCEPT ![t] = FALSE]
            /\ addReq' = [addReq EXCEPT ![t] = [st |-> "idle"]]
    /\ UNCHANGED <<start, log, open, db, nextId, bookmarks, feed, delReq, removed, untouched>>

\* handleAddBookmark after its await: the insert call has returned.
AddReturn(t) ==
    /\ t \in open
    /\ addReq[t].st = "sent"
    /\ IF addReq[t].error
       THEN /\ toast' = showToast(t, "Failed to add bookmark")
            /\ UNCHANGED <<title, url>>
       ELSE /\ toast' = showToast(t, "Bookmark added!")
            /\ title' = [title EXCEPT ![t] = <<>>]
            /\ url' = [url EXCEPT ![t] = <<>>]
    /\ isAdding' = [isAdding EXCEPT ![t] = FALSE]
    /\ addReq' = [addReq EXCEPT ![t] = [st |-> "idle"]]
    /\ UNCHANGED <<start, log, open, db, nextId, bookmarks, feed, delReq, removed, untouched>>

----------------------------------------------------------------------------
(* handleDeleteBookmark *)

\* handleDeleteBookmark(id) up to its await: the server deletes the row and
\* publishes the change, or the call fails.  Deleting a row that is gone is a
\* success that changes nothing.
DeleteCall(t, id, fails) ==
    /\ untouched' = [untouched EXCEPT ![t] = FALSE]
    /\ delReq' = [delReq EXCEPT ![t] = @ \cup {[id |-> id, error |-> fails]}]
    /\ IF ~fails /\ \E row \in db : row.id = id
       THEN /\ db' = { row \in db : row.id # id }
            /\ feed' = Publish(DeleteEvent(id))
       ELSE UNCHANGED <<db, feed>>
    /\ UNCHANGED <<start, log, open, nextId, bookmarks, addReq, title, url, isAdding, toast, removed>>

\* A card of the list calls onDelete(id): the clicks on the card taken as one
\* step.  A card whose call has not returned has its button disabled.
DeleteSubmit(t, id, fails) ==
    /\ t \in open
    /\ id \in IdsOf(bookmarks[t])
    /\ \A r \in delReq[t] : r.id # id
    /\ DeleteCall(t, id, fails)

\* DeleteReturn without the error branch: a failed delete ends silently.
DeleteReturnSilent(t, r) ==
    /\ t \in open
    /\ r \in delReq[t]
    /\ toast' = IF r.error THEN toast ELSE showToast(t, "Bookmark deleted")
    /\ delReq' = [delReq EXCEPT ![t] = @ \ {r}]
    /\ UNCHANGED <<start, log, open, db, nextId, bookmarks, feed, addReq, title, url, isAdding,
                   removed, untouched>>

\* handleDeleteBookmark after its await: the delete call has returned.
DeleteReturn(t, r) ==
    /\ t \in open
    /\ r \in delReq[t]
    /\ toast' = showToast(t, IF r.error THEN "Failed to delete bookmark"
                             ELSE "Bookmark deleted")
    /\ delReq' = [delReq EXCEPT ![t] = @ \ {r}]
    /\ UNCHANGED <<start, log, open, db, nextId, bookmarks, feed, addReq, title, url, isAdding,
                   removed, untouched>>

\* Toast's onClose.
CloseToast(t) ==
    /\ t \in open
    /\ toast[t] # NoToast
    /\ toast' = [toast EXCEPT ![t] = NoToast]
    /\ UNCHANGED <<start, log, open, db, nextId, bookmarks, feed, addReq, delReq, title, url,
                   isAdding, removed, untouched>>

----------------------------------------------------------------------------
(* The realtime subscription of the effect *)

\* The list after the channel's handler for event ev has run.
Handle(prev, ev) ==
    IF ev.type = "INSERT" THEN OnInsert(prev, ev.new) ELSE OnDelete(prev, ev.old)

\* The feed hands event ev to tab t; an at-least-once feed may hand it over again.
Deliver(t, ev, again) ==
    /\ t \in open
    /\ ev \in feed[t]
    /\ bookmarks' = [bookmarks EXCEPT ![t] = Handle(@, ev)]
    /\ feed' = [feed EXCEPT ![t] = IF again THEN @ ELSE @ \ {ev}]
    /\ untouched' = [untouched EXCEPT ![t] = FALSE]
    /\ removed' = [removed EXCEPT ![t] =
                      IF ev.type = "DELETE" /\ ev.old.id \in IdsOf(bookmarks[t])
                      THEN @ \cup {ev.old.id} ELSE @]
    /\ UNCHANGED <<start, log, open, db, nextId, addReq, delReq, title, url, isAdding, toast>>

\* The feed loses event ev on its way to tab t.
Drop(t, ev) ==
    /\ t \in open
    /\ ev \in feed[t]
    /\ feed' = [feed EXCEPT ![t] = @ \ {ev}]
    /\ UNCHANGED <<start, log, open, db, nextId, bookmarks, addReq, delReq, title, url, isAdding,
                   toast, removed, untouched>>

----------------------------------------------------------------------------

\* What the form, the list and the feed leave alone.
Rest == UNCHANGED <<joined, subs, search, card, tick>>

Next ==
    \E t \in Tabs :
        \/ \E text \in TitleInputs : TypeTitle(t, text) /\ Rest
        \/ \E text \in UrlInputs : TypeUrl(t, text) /\ Rest
        \/ \E fails \in BOOLEAN : AddSubmit(t, fails) /\ Rest
        \/ AddReturn(t) /\ Rest
        \/ \E id \in Ids, fails \in BOOLEAN : DeleteSubmit(t, id, fails) /\ Rest
        \/ \E r \in delReq[t] : DeleteReturn(t, r) /\ Rest
        \/ CloseToast(t) /\ Rest
        \/ \E ev \in feed[t], again \in BOOLEAN : Deliver(t, ev, again) /\ Rest
        \/ \E ev \in feed[t] : Drop(t, ev) /\ Rest

Spec == Init /\ [][Next]_vars

----------------------------------------------------------------------------
(* Two tabs of one browser: the user works in tab A, tab B is a sibling left
   open.  SpecTabs takes the runs of the two-tab system in which no call
   fails, the form holds a valid entry when it is typed in, and the feed hands
   each event over at most once; every run of it is a run of the application. *)

InitTabs == InitWith(Tabs)

GoodTitle == <<" ", "a">>
GoodUrl == <<"a", ".", "c", "o">>

NextTabs ==
    \/ TypeTitle("A", GoodTitle) /\ Rest
    \/ TypeUrl("A", GoodUrl) /\ Rest
    \/ AddSubmit("A", FALSE) /\ Rest
    \/ AddReturn("A") /\ Rest
    \/ \E id \in Ids : DeleteSubmit("A", id, FALSE) /\ Rest
    \/ \E r \in delReq["A"] : DeleteReturn("A", r) /\ Rest
    \/ \E t \in Tabs :
           \/ \E ev \in feed[t] : Deliver(t, ev, FALSE) /\ Rest
           \/ \E ev \in feed[t] : Drop(t, ev) /\ Rest

SpecTabs == InitTabs /\ [][NextTabs]_vars

----------------------------------------------------------------------------
(* The handlers of one tab, step by step: every input of the form, calls that
   fail, and a feed that hands each event over once.  tick records that a
   handler ran a step, also when the step set the state it found. *)

\* The url inputs of the form: also one that has its scheme, after a blank.
FormUrls == UrlInputs \cup { <<" ">> \o Https \o <<"a", ".", "c", "o">> }

Ran(t) ==
    /\ tick' = [tick EXCEPT ![t] = ~@]
    /\ UNCHANGED <<joined, subs, search, card>>

NextHandlers ==
    \/ \E text \in TitleInputs : TypeTitle("A", text) /\ Rest
    \/ \E text \in FormUrls : TypeUrl("A", text) /\ Rest
    \/ \E fails \in BOOLEAN : AddSubmit("A", fails) /\ Ran("A")
    \/ AddReturn("A") /\ Ran("A")
    \/ \E id \in Ids, fails \in BOOLEAN : DeleteSubmit("A", id, fails) /\ Ran("A")
    \/ \E r \in delReq["A"] : DeleteReturn("A", r) /\ Ran("A")
    \/ CloseToast("A") /\ Rest
    \/ \E ev \in feed["A"] : Deliver("A", ev, FALSE) /\ Rest

SpecHandlers == Init /\ [][NextHandlers]_vars

----------------------------------------------------------------------------
(* The life of a view: DashboardPage renders it from a snapshot, its effect
   opens the postgres_changes channel, the effect's cleanup removes it. *)

\* An effect without a cleanup: the channel is never removed.
KeepChannel(n) == n

\* The cleanup of the effect, supabase.removeChannel(channel): the channel
\* count of the view after it.
RemoveChannel(n) == n - 1

\* The body of the effect, supabase.channel(...).on(...).on(...).subscribe():
\* the channel count of the view after it.
Subscribe(n) == n + 1

\* The tab loads the dashboard: the page's query is the list, every useState
\* has its initial value, the effect runs.
Mount(t) ==
    /\ t \notin open
    /\ open' = open \cup {t}
    /\ bookmarks' = [bookmarks EXCEPT ![t] = OrderDesc(Visible(User))]
    /\ subs' = [subs EXCEPT ![t] = Subscribe(@)]
    /\ joined' = joined \cup {t}
    /\ UNCHANGED <<db, nextId, feed, addReq, delReq, title, url, isAdding, toast,
                   removed, untouched, start, log, search, card, tick>>

\* The tab leaves the dashboard: the cleanup runs and the state of the view
\* is gone.  Calls in flight complete at the server; nothing reads their
\* results, and events on their way to the removed channel reach nobody.
Unmount(t) ==
    /\ t \in open
    /\ open' = open \ {t}
    /\ subs' = [subs EXCEPT ![t] = RemoveChannel(@)]
    /\ joined' = joined \ {t}
    /\ feed' = [feed EXCEPT ![t] = {}]
    /\ bookmarks' = [bookmarks EXCEPT ![t] = <<>>]
    /\ addReq' = [addReq EXCEPT ![t] = [st |-> "idle"]]
    /\ delReq' = [delReq EXCEPT ![t] = {}]
    /\ title' = [title EXCEPT ![t] = <<>>]
    /\ url' = [url EXCEPT ![t] = <<>>]
    /\ isAdding' = [isAdding EXCEPT ![t] = FALSE]
    /\ toast' = [toast EXCEPT ![t] = NoToast]
    /\ removed' = [removed EXCEPT ![t] = {}]
    /\ untouched' = [untouched EXCEPT ![t] = TRUE]
    /\ UNCHANGED <<db, nextId, start, log, search, card, tick>>

\* A render hands the effect another supabase object (createClient() is
\* called in the component body): the cleanup runs, then the effect again.
EffectRerun(t) ==
    /\ t \in open
    /\ subs' = [subs EXCEPT ![t] = Subscribe(RemoveChannel(@))]
    /\ joined' = joined \cup {t}
    /\ feed' = [feed EXCEPT ![t] = {}]
    /\ UNCHANGED <<open, db, nextId, bookmarks, addReq, delReq, title, url, isAdding,
                   toast, removed, untouched, start, log, search, card, tick>>

\* No tab is open yet.
InitMount == InitWith({})

\* Tabs come and go; the user deletes rows in tab A.
NextMount ==
    \/ \E t \in Tabs : Mount(t)
    \/ \E t \in Tabs : Unmount(t)
    \/ \E t \in Tabs : EffectRerun(t)
    \/ \E id \in Ids : DeleteSubmit("A", id, FALSE) /\ Rest
    \/ \E r \in delReq["A"] : DeleteReturn("A", r) /\ Rest
    \/ \E t \in Tabs : \E ev \in feed[t] : Deliver(t, ev, FALSE) /\ Rest

SpecMount == InitMount /\ [][NextMount]_vars

----------------------------------------------------------------------------
(* The search box and the filtered list that is rendered *)

\* The letters of the inputs that have an upper and a lower case form.
CasePairs == { <<"A", "a">>, <<"B", "b">>, <<"C", "c">> }

\* String.prototype.toLowerCase
ToLowerCase(s) ==
    [i \in 1..Len(s) |->
        IF \E p \in CasePairs : p[1] = s[i]
        THEN (CHOOSE p \in CasePairs : p[1] = s[i])[2]
        ELSE s[i]]

\* String.prototype.includes
Includes(s, q) ==
    \E i \in 0..(Len(s) - Len(q)) : SubSeq(s, i + 1, i + Len(q)) = q

\* filteredBookmarks with the query taken as typed, not lower-cased.
filteredAsTyped(list, q) ==
    SelectSeq(list, LAMBDA b : \/ Includes(ToLowerCase(b.title), q)
                               \/ Includes(ToLowerCase(b.url), q))

\* filteredBookmarks: bookmarks.filter(...) for search = q
filteredBookmarks(list, q) ==
    SelectSeq(list, LAMBDA b : \/ Includes(ToLowerCase(b.title), ToLowerCase(q))
                               \/ Includes(ToLowerCase(b.url), ToLowerCase(q)))

\* onChange of the search input.
TypeSearch(t, text) ==
    /\ t \in open
    /\ search' = [search EXCEPT ![t] = text]
    /\ UNCHANGED <<open, db, nextId, bookmarks, feed, addReq, delReq, title, url,
                   isAdding, toast, removed, untouched, start, log, joined, subs,
                   card, tick>>

SearchInputs ==
    { <<"a">>, <<"B">>, <<"A", "B">>, <<"b", "a">>, <<"c", "o">>, <<"C", ".">>, <<"x">> }

\* Rows as the form creates them, with letters of either case.
FilterTitles == { <<"A", "b">>, <<"b", "a">> }
FilterUrls == { SeedUrl, Https \o <<"C", ".", "c", "o">> }
FilterRows == { Row(i, ti, u) : i \in Ids, ti \in FilterTitles, u \in FilterUrls }

\* A list that holds no id twice, in any order.
RECURSIVE ListsOver(_)
ListsOver(ids) ==
    { <<>> } \cup UNION { { <<r>> \o l : l \in ListsOver(ids \ {r.id}) } :
                            r \in { x \in FilterRows : x.id \in ids } }

InitFilter ==
    /\ open = {"A"}
    /\ \E l \in ListsOver(Ids) :
           /\ bookmarks = [t \in Tabs |-> IF t = "A" THEN l ELSE <<>>]
           /\ db = { l[i] : i \in 1..Len(l) }
    /\ nextId = MaxIds + 1
    /\ start = <<>>
    /\ log = <<>>
    /\ feed = [t \in Tabs |-> {}]
    /\ addReq = [t \in Tabs |-> [st |-> "idle"]]
    /\ delReq = [t \in Tabs |-> {}]
    /\ title = [t \in Tabs |-> <<>>]
    /\ url = [t \in Tabs |-> <<>>]
    /\ isAdding = [t \in Tabs |-> FALSE]
    /\ toast = [t \in Tabs |-> NoToast]
    /\ removed = [t \in Tabs |-> {}]
    /\ untouched = [t \in Tabs |-> TRUE]
    /\ joined = {"A"}
    /\ subs = [t \in Tabs |-> IF t = "A" THEN 1 ELSE 0]
    /\ search = [t \in Tabs |-> <<>>]
    /\ card = [t \in Tabs |-> [i \in Ids |-> NewCard]]
    /\ tick = [t \in Tabs |-> FALSE]

NextFilter == \E text \in SearchInputs \cup { <<>> } : TypeSearch("A", text)

SpecFilter == InitFilter /\ [][NextFilter]_vars

----------------------------------------------------------------------------
(* Two users: Other adds and deletes rows of their own while User's tab A is
   mounted or not. *)

\* Other's insert call: the policy WITH CHECK (auth.uid() = user_id) lets the
\* row in with Other as its owner.
OtherInsert ==
    /\ nextId <= MaxIds
    /\ LET row == [Row(nextId, OtherTitle, OtherUrl) EXCEPT !.user_id = Other]
       IN  /\ db' = db \cup {row}
           /\ feed' = Publish(InsertEvent(row))
    /\ nextId' = nextId + 1
    /\ UNCHANGED <<open, bookmarks, addReq, delReq, title, url, isAdding, toast,
                   removed, untouched, start, log, joined, subs, search, card, tick>>

\* Other's delete call for a row of their own.  Whether the feed hands the
\* DELETE event to a tab of User is up to the server.
OtherDelete(id, handed) ==
    /\ \E row \in db : row.id = id /\ row.user_id = Other
    /\ db' = { row \in db : row.id # id }
    /\ feed' = IF handed THEN Publish(DeleteEvent(id)) ELSE feed
    /\ UNCHANGED <<open, nextId, bookmarks, addReq, delReq, title, url, isAdding,
                   toast, removed, untouched, start, log, joined, subs, search,
                   card, tick>>

\* No tab is open; the table holds rows of both users.
InitOwners ==
    \E n \in 0..MaxIds : \E owner \in [1..n -> {User, Other}] :
        /\ open = {}
        /\ db = { [Row(i, SeedTitle, SeedUrl) EXCEPT !.user_id = owner[i]] : i \in 1..n }
        /\ nextId = n + 1
        /\ bookmarks = [t \in Tabs |-> <<>>]
        /\ feed = [t \in Tabs |-> {}]
        /\ addReq = [t \in Tabs |-> [st |-> "idle"]]
        /\ delReq = [t \in Tabs |-> {}]
        /\ title = [t \in Tabs |-> <<>>]
        /\ url = [t \in Tabs |-> <<>>]
        /\ isAdding = [t \in Tabs |-> FALSE]
        /\ toast = [t \in Tabs |-> NoToast]
        /\ removed = [t \in Tabs |-> {}]
        /\ untouched = [t \in Tabs |-> TRUE]
        /\ start = <<>>
        /\ log = <<>>
        /\ joined = {}
        /\ subs = [t \in Tabs |-> 0]
        /\ search = [t \in Tabs |-> <<>>]
        /\ card = [t \in Tabs |-> [i \in Ids |-> NewCard]]
        /\ tick = [t \in Tabs |-> FALSE]

NextOwners ==
    \/ Mount("A")
    \/ Unmount("A")
    \/ OtherInsert
    \/ \E id \in Ids, handed \in BOOLEAN : OtherDelete(id, handed)
    \/ TypeTitle("A", GoodTitle) /\ Rest
    \/ TypeUrl("A", GoodUrl) /\ Rest
    \/ AddSubmit("A", FALSE) /\ Rest
    \/ AddReturn("A") /\ Rest
    \/ \E ev \in feed["A"], again \in BOOLEAN : Deliver("A", ev, again) /\ Rest

SpecOwners == InitOwners /\ [][NextOwners]_vars

----------------------------------------------------------------------------
(* The push feed is down: tabs A and B are mounted, their channels never
   join (subscribe() is given no status callback, the view does not notice),
   and the user works in tab A. *)

InitDown == InitState(Tabs, {})

NextDown ==
    \/ \E text \in TitleInputs : TypeTitle("A", text) /\ Rest
    \/ \E text \in UrlInputs : TypeUrl("A", text) /\ Rest
    \/ \E fails \in BOOLEAN : AddSubmit("A", fails) /\ Rest
    \/ AddReturn("A") /\ Rest
    \/ \E id \in Ids, fails \in BOOLEAN : DeleteSubmit("A", id, fails) /\ Rest
    \/ \E r \in delReq["A"] : DeleteReturn("A", r) /\ Rest
    \/ CloseToast("A") /\ Rest

SpecDown == InitDown /\ [][NextDown]_vars

----------------------------------------------------------------------------
(* BookmarkCard: the cards of tab A's list, click by click.  No row is added,
   so a card that left the list does not come back. *)

CardFrame == UNCHANGED <<joined, subs, search, tick>>

\* The cards of the list after a step: a row that left the list has no card.
Mounted(cards, list) ==
    [i \in Ids |-> IF i \in IdsOf(list) THEN cards[i] ELSE NewCard]

\* Click on the delete button: setShowConfirm(true).
CardAsk(t, id) ==
    /\ t \in open
    /\ id \in IdsOf(bookmarks[t])
    /\ ~card[t][id].showConfirm
    /\ card' = [card EXCEPT ![t][id].showConfirm = TRUE]
    /\ CardFrame
    /\ UNCHANGED <<open, db, nextId, bookmarks, feed, addReq, delReq, title, url,
                   isAdding, toast, removed, untouched, start, log>>

\* Click on Cancel: setShowConfirm(false).
CardCancel(t, id) ==
    /\ t \in open
    /\ id \in IdsOf(bookmarks[t])
    /\ card[t][id].showConfirm
    /\ card' = [card EXCEPT ![t][id].showConfirm = FALSE]
    /\ CardFrame
    /\ UNCHANGED <<open, db, nextId, bookmarks, feed, addReq, delReq, title, url,
                   isAdding, toast, removed, untouched, start, log>>

\* CardConfirm with a Delete button that is never disabled.
CardConfirmAlways(t, id, fails) ==
    /\ t \in open
    /\ id \in IdsOf(bookmarks[t])
    /\ card[t][id].showConfirm
    /\ card' = [card EXCEPT ![t][id].isDeleting = TRUE, ![t][id].calls = @ + 1]
    /\ DeleteCall(t, id, fails)
    /\ CardFrame

\* Click on Delete in the confirmation: handleDelete up to its await.
CardConfirm(t, id, fails) ==
    /\ t \in open
    /\ id \in IdsOf(bookmarks[t])
    /\ card[t][id].showConfirm
    /\ ~card[t][id].isDeleting
    /\ card' = [card EXCEPT ![t][id].isDeleting = TRUE, ![t][id].calls = @ + 1]
    /\ DeleteCall(t, id, fails)
    /\ CardFrame

\* handleDelete after its await: onDelete has returned.  The setters of a
\* card that is no longer in the list do nothing.
CardReturn(t, r) ==
    /\ DeleteReturn(t, r)
    /\ card' = [card EXCEPT ![t] =
                    Mounted([@ EXCEPT ![r.id] = NewCard], bookmarks[t])]
    /\ CardFrame

\* A push event is handled and the list is rendered again.
CardDeliver(t, ev) ==
    /\ Deliver(t, ev, FALSE)
    /\ card' = [card EXCEPT ![t] = Mounted(@, bookmarks'[t])]
    /\ CardFrame

NextCard ==
    \/ \E id \in Ids : CardAsk("A", id)
    \/ \E id \in Ids : CardCancel("A", id)
    \/ \E id \in Ids, fails \in BOOLEAN : CardConfirm("A", id, fails)
    \/ \E r \in delReq["A"] : CardReturn("A", r)
    \/ \E ev \in feed["A"] : CardDeliver("A", ev)
    \/ \E ev \in feed["A"] : Drop("A", ev) /\ Rest
    \/ CloseToast("A") /\ Rest

SpecCard == Init /\ [][NextCard]_vars

----------------------------------------------------------------------------
(* A feed that loses nothing: every event is handed to tab A at least once,
   in any order and any number of times, while the user adds and deletes with
   valid entries and no call fails. *)

NextDelivered ==
    \/ TypeTitle("A", GoodTitle) /\ Rest
    \/ TypeUrl("A", GoodUrl) /\ Rest
    \/ AddSubmit("A", FALSE) /\ Rest
    \/ AddReturn("A") /\ Rest
    \/ \E id \in Ids : DeleteSubmit("A", id, FALSE) /\ Rest
    \/ \E r \in delReq["A"] : DeleteReturn("A", r) /\ Rest
    \/ \E ev \in feed["A"], again \in BOOLEAN : Deliver("A", ev, again) /\ Rest

SpecDelivered == Init /\ [][NextDelivered]_vars

----------------------------------------------------------------------------
(* The store on its own: tab A's list under the three state updates that
   DashboardClient has for it, fed with arbitrary payloads. *)

\* Two payloads per id, which differ in title, url and created_at.
StoreRows ==
    { Row(i, SeedTitle, SeedUrl) : i \in Ids }
        \cup { [Row(i, OtherTitle, OtherUrl) EXCEPT !.created_at = i + 1] : i \in Ids }

\* Lists without a repeated id, the only lists setBookmarks ever holds.
StartLists ==
    { <<>> } \cup { <<r>> : r \in StoreRows }
             \cup { p \in StoreRows \X StoreRows : p[1].id # p[2].id }

InitStore ==
    /\ open = {"A"}
    /\ db = {}
    /\ nextId = MaxIds + 1
    /\ \E l \in StartLists :
           /\ bookmarks = [t \in Tabs |-> IF t = "A" THEN l ELSE <<>>]
           /\ start = l
    /\ log = <<>>
    /\ feed = [t \in Tabs |-> {}]
    /\ addReq = [t \in Tabs |-> [st |-> "idle"]]
    /\ delReq = [t \in Tabs |-> {}]
    /\ title = [t \in Tabs |-> <<>>]
    /\ url = [t \in Tabs |-> <<>>]
    /\ isAdding = [t \in Tabs |-> FALSE]
    /\ toast = [t \in Tabs |-> NoToast]
    /\ removed = [t \in Tabs |-> {}]
    /\ untouched = [t \in Tabs |-> TRUE]
    /\ joined = {"A"}
    /\ subs = [t \in Tabs |-> IF t = "A" THEN 1 ELSE 0]
    /\ search = [t \in Tabs |-> <<>>]
    /\ card = [t \in Tabs |-> [i \in Ids |-> NewCard]]
    /\ tick = [t \in Tabs |-> FALSE]

StoreFrame ==
    UNCHANGED <<open, db, nextId, feed, addReq, delReq, title, url, isAdding,
                toast, removed, untouched, start, joined, subs, search, card, tick>>

\* OnAdded as an optimistic update without the exists check.
OnAddedPrepend(prev, row) == <<row>> \o prev

\* The list after handleAddBookmark's success branch for the created row: the
\* branch shows a toast and clears the form, it has no setBookmarks call.
OnAdded(prev, row) == prev

\* A postgres_changes INSERT event with payload.new = row arrives.
StoreInsert(row) ==
    /\ Len(log) < MaxLog
    /\ bookmarks' = [bookmarks EXCEPT !["A"] = OnInsert(@, row)]
    /\ log' = Append(log, [path |-> "push", type |-> "INSERT", id |-> row.id, row |-> row])
    /\ StoreFrame

\* A postgres_changes DELETE event with payload.old = [id |-> id] arrives.
StoreDelete(id) ==
    /\ Len(log) < MaxLog
    /\ bookmarks' = [bookmarks EXCEPT !["A"] = OnDelete(@, [id |-> id])]
    /\ log' = Append(log, [path |-> "push", type |-> "DELETE", id |-> id, row |-> <<>>])
    /\ StoreFrame

\* The insert call that created row returns with success in this tab.
StoreAdded(row) ==
    /\ Len(log) < MaxLog
    /\ bookmarks' = [bookmarks EXCEPT !["A"] = OnAdded(@, row)]
    /\ log' = Append(log, [path |-> "local", type |-> "INSERT", id |-> row.id, row |-> row])
    /\ StoreFrame

\* The list after handleDeleteBookmark's success branch for id: the branch
\* shows a toast, it has no setBookmarks call.
OnDeleted(prev, id) == prev

\* The delete call for id returns with success in this tab.
StoreDeleted(id) ==
    /\ Len(log) < MaxLog
    /\ bookmarks' = [bookmarks EXCEPT !["A"] = OnDeleted(@, id)]
    /\ log' = Append(log, [path |-> "local", type |-> "DELETE", id |-> id, row |-> <<>>])
    /\ StoreFrame

\* The old records a DELETE event can carry: the primary key alone, the whole
\* row (REPLICA IDENTITY FULL), and either of them without the id.
OldRecords ==
    { [id |-> i] : i \in Ids \cup {NoId} }
        \cup StoreRows
        \cup { [r EXCEPT !.id = NoId] : r \in StoreRows }

\* A postgres_changes DELETE event with payload.old = old arrives.
StoreDeleteOld(old) ==
    /\ Len(log) < MaxDel
    /\ bookmarks' = [bookmarks EXCEPT !["A"] = OnDelete(@, old)]
    /\ log' = Append(log, [path |-> "push", type |-> "DELETE", id |-> old.id, row |-> old])
    /\ StoreFrame

NextDelete == \E old \in OldRecords : StoreDeleteOld(old)

SpecDelete == InitStore /\ [][NextDelete]_vars

NextStore ==
    \/ \E row \in StoreRows : StoreInsert(row)
    \/ \E id \in Ids \cup {NoId} : StoreDelete(id)
    \/ \E id \in Ids : StoreAdded(Row(id, SeedTitle, SeedUrl))
    \/ \E id \in Ids : StoreDeleted(id)

SpecStore == InitStore /\ [][NextStore]_vars

----------------------------------------------------------------------------
(* Properties of the list of an open tab *)

\* Rows the server has created and deleted again.
DeletedIds == { i \in 1..(nextId - 1) : i \notin IdsOf(OrderDesc(db)) }

\* Nothing is in flight: every call has returned and every feed is empty.
Settled ==
    \A t \in Tabs : feed[t] = {} /\ addReq[t].st = "idle" /\ delReq[t] = {}

\* C1: in every reachable state no two entries of a tab's list share an id,
\* whatever events were applied to a list that started without a repeated id.
C1_UniqueIds ==
    \A t \in Tabs : \A i, j \in 1..Len(bookmarks[t]) :
        bookmarks[t][i].id = bookmarks[t][j].id => i = j

\* C1's case: a push INSERT event for an id of the starting list was applied
\* after a returned insert or delete call, and the list has two entries.
C1_Witness ==
    /\ Len(bookmarks["A"]) = 2
    /\ Len(log) = 3
    /\ log[3].path = "push" /\ log[3].type = "INSERT"
    /\ log[3].id \in IdsOf(start)
    /\ \E k \in 1..2 : log[k].path = "local"

\* C2: in every reachable state a tab's list is sorted by created_at, newest
\* first.
C2_SortedNewestFirst ==
    \A t \in Tabs : \A i, j \in 1..Len(bookmarks[t]) :
        i < j => bookmarks[t][i].created_at >= bookmarks[t][j].created_at

\* C3: a row the DELETE handler removed from a tab's list is never in that
\* list again.
C3_NoResurrection ==
    \A t \in Tabs : removed[t] \cap IdsOf(bookmarks[t]) = {}

\* C4: once nothing is in flight any more, no open tab still lists a row that
\* was deleted from the remote table.
C4_DeletedRowsGone ==
    Settled => \A t \in open : IdsOf(bookmarks[t]) \cap DeletedIds = {}

\* C5: the step in which a successful insert call returns leaves the created
\* row in the calling tab's list.
C5_AddShowsRow ==
    [][\A t \in Tabs :
          (addReq[t].st = "sent" /\ addReq'[t].st = "idle" /\ ~addReq[t].error)
              => addReq[t].id \in IdsOf(bookmarks'[t])]_vars

\* C6: the step in which a successful delete call returns leaves the calling
\* tab's list without the deleted row.
C6_DeleteRemovesRow ==
    [][\A t \in Tabs : \A r \in delReq[t] :
          (r \notin delReq'[t] /\ ~r.error) => r.id \notin IdsOf(bookmarks'[t])]_vars

\* Every insert and delete call has returned.
CallsReturned == \A t \in Tabs : addReq[t].st = "idle" /\ delReq[t] = {}

\* C7: a sibling tab that got no push event and sent no call of its own
\* shows, once the calls of the other tabs have returned, exactly the rows of
\* the table: what the other tabs added and deleted reached it without the
\* push feed.
C7_SiblingReflects ==
    \A b \in open :
        (CallsReturned /\ untouched[b]) => IdsOf(bookmarks[b]) = IdsOf(OrderDesc(db))

----------------------------------------------------------------------------
(* Properties of the store (SpecStore) *)

\* The events applied so far, as a set.
Logged == { log[k] : k \in 1..Len(log) }

\* The positions of the list that hold id.
Places(list, id) == { k \in 1..Len(list) : list[k].id = id }

\* C8: after only insert events with one id, the list has exactly one entry
\* with that id; when the id was not in the starting list the entry is the
\* first event's row, put in front of the starting list, and every later
\* event changed nothing; when it was, the list is the starting list.
C8_FirstInsertWins ==
    \A id \in Ids :
        (log # <<>> /\ \A e \in Logged : e.path = "push" /\ e.type = "INSERT" /\ e.id = id)
            => /\ Cardinality(Places(bookmarks["A"], id)) = 1
               /\ bookmarks["A"] = IF id \in IdsOf(start) THEN start
                                   ELSE <<log[1].row>> \o start

\* C8's case: three insert events with one id and two different payloads were
\* applied to a list that did not hold the id.
C8_Witness ==
    /\ Len(log) = 3
    /\ \A k \in 1..3 : log[k].path = "push" /\ log[k].type = "INSERT" /\ log[k].id = log[1].id
    /\ log[1].row # log[2].row
    /\ log[1].id \notin IdsOf(start)
    /\ start # <<>>

\* C9: after only removals of one id, the list is the starting list without
\* that id's entry: the starting list itself when the id was not in it, and
\* the same list however often the removal was repeated.
C9_RemoveIdempotent ==
    \A id \in Ids \cup {NoId} :
        (log # <<>> /\ \A e \in Logged : e.path = "push" /\ e.type = "DELETE" /\ e.id = id)
            => /\ bookmarks["A"] = SelectSeq(start, LAMBDA b : b.id # id)
               /\ (id \notin IdsOf(start) => bookmarks["A"] = start)

\* C9's case: an id of a two-entry list was removed three times.
C9_Witness ==
    /\ Len(log) = 3
    /\ \A k \in 1..3 : log[k].path = "push" /\ log[k].type = "DELETE" /\ log[k].id = log[1].id
    /\ log[1].id \in IdsOf(start)
    /\ Len(start) = 2

\* C10: when only arrival events of one created row were applied, on every
\* path the code has (the returning insert call and the push INSERT) and in
\* any order and number, the list is the same: the row in front of the
\* starting list, or the starting list when it already held the row's id.
C10_ArrivalOrderFree ==
    \A row \in StoreRows :
        ( /\ \A e \in Logged : e.type = "INSERT" /\ e.row = row
          /\ \E e \in Logged : e.path = "push"
          /\ \E e \in Logged : e.path = "local" )
            => bookmarks["A"] = IF row.id \in IdsOf(start) THEN start
                                ELSE <<row>> \o start

\* C10's case: the push INSERT of a row arrived twice and before the insert
\* call returned, on a list that did not hold the row.
C10_Witness ==
    /\ Len(log) = 3
    /\ log[1].path = "push" /\ log[2].path = "push" /\ log[3].path = "local"
    /\ \A k \in 1..3 : log[k].type = "INSERT" /\ log[k].row = log[1].row
    /\ log[1].id \notin IdsOf(start)
    /\ start # <<>>

----------------------------------------------------------------------------
(* Properties of the handlers (SpecHandlers) *)

\* C11: a step in which an insert or delete call that failed is sent or
\* returns leaves the tab's list, the table and the feed as they were; the
\* return shows the error notification and leaves no call of that kind
\* pending in its place (nothing is sent again).
C11_ErrorLeavesList ==
    [][\A t \in Tabs :
          /\ ( /\ tick'[t] # tick[t] /\ delReq'[t] = delReq[t]
               /\ addReq[t].st = "sent" /\ addReq[t].error )
                 => /\ bookmarks'[t] = bookmarks[t] /\ db' = db /\ feed' = feed
                    /\ toast'[t] = "Failed to add bookmark"
                    /\ addReq'[t].st = "idle"
          /\ ( /\ addReq[t].st = "idle" /\ addReq'[t].st = "sent"
               /\ addReq'[t].error )
                 => bookmarks'[t] = bookmarks[t] /\ db' = db /\ feed' = feed
          /\ \A r \in delReq[t] \ delReq'[t] :
                 r.error => /\ bookmarks'[t] = bookmarks[t] /\ db' = db /\ feed' = feed
                            /\ toast'[t] = "Failed to delete bookmark"
                            /\ delReq'[t] = delReq[t] \ {r}
          /\ \A r \in delReq'[t] \ delReq[t] :
                 r.error => bookmarks'[t] = bookmarks[t] /\ db' = db /\ feed' = feed
      ]_vars

\* C11's case: a failed insert call has returned in a tab that lists a row
\* and has a failed delete call pending.
C11_Witness ==
    /\ toast["A"] = "Failed to add bookmark"
    /\ addReq["A"].st = "idle"
    /\ bookmarks["A"] # <<>>
    /\ \E r \in delReq["A"] : r.error

\* A handleAddBookmark run of tab t takes its first step: a handler step
\* that is neither a return of the insert call nor part of a delete.
AddStarts(t) ==
    /\ tick'[t] # tick[t]
    /\ delReq'[t] = delReq[t]
    /\ addReq[t].st = "idle"

\* C12: a submit whose title is empty after trimming, or whose address with
\* https:// put in front where it has no scheme is not an http/https URL,
\* sends no insert call and leaves list, table and feed as they were; every
\* row the table gets has an address that starts with http:// or https:// and
\* is such a URL.
C12_InvalidNeverSent ==
    [][\A t \in Tabs :
          /\ ( /\ AddStarts(t)
               /\ Trim(title[t]) = <<>> \/ ~isValidUrl(FinalUrl(url[t])) )
                 => /\ addReq'[t] = addReq[t] /\ ~isAdding'[t]
                    /\ db' = db /\ feed' = feed /\ bookmarks' = bookmarks
          /\ \A row \in db' \ db :
                 /\ StartsWith(row.url, Http) \/ StartsWith(row.url, Https)
                 /\ isValidUrl(row.url)
                 /\ row.title # <<>>
      ]_vars

\* C12's case: the address js:x(1) was submitted with a title and refused,
\* in a tab whose table holds a row.
C12_Witness ==
    /\ toast["A"] = "Please enter a valid URL"
    /\ url["A"] = <<"j", "s", ":", "x", "(", "1", ")">>
    /\ Trim(title["A"]) # <<>>
    /\ addReq["A"].st = "idle"
    /\ db # {}

\* The notifications of a refused submit.
ValidationErrors == {"Please enter a title", "Please enter a valid URL"}

\* C13: every run of handleAddBookmark and handleDeleteBookmark sets exactly
\* one notification: the step that sends a call sets none, the step in which
\* the call returns sets the one of its outcome, and a refused submit sets
\* the one of its validation error in its only step.
C13_OneNotification ==
    [][\A t \in Tabs :
          /\ (AddStarts(t) /\ addReq'[t].st = "idle") => toast'[t] \in ValidationErrors
          /\ (AddStarts(t) /\ addReq'[t].st = "sent") => toast'[t] = toast[t]
          /\ ( /\ tick'[t] # tick[t] /\ delReq'[t] = delReq[t]
               /\ addReq[t].st = "sent" )
                 => /\ addReq'[t].st = "idle"
                    /\ toast'[t] = IF addReq[t].error THEN "Failed to add bookmark"
                                   ELSE "Bookmark added!"
          /\ (tick'[t] # tick[t] /\ delReq'[t] # delReq[t])
                 => \/ /\ delReq[t] \subseteq delReq'[t]
                       /\ Cardinality(delReq'[t] \ delReq[t]) = 1
                       /\ toast'[t] = toast[t]
                    \/ \E r \in delReq[t] :
                          /\ delReq'[t] = delReq[t] \ {r}
                          /\ toast'[t] = IF r.error THEN "Failed to delete bookmark"
                                         ELSE "Bookmark deleted"
      ]_vars

\* C13's case: a delete run has ended with its notification while an add
\* run has sent its call and set none.
C13_Witness ==
    /\ toast["A"] = "Bookmark deleted"
    /\ delReq["A"] = {}
    /\ addReq["A"].st = "sent"
    /\ tick["A"]

----------------------------------------------------------------------------
(* Properties of the add form's flag (SpecHandlers) *)

\* The submit button of tab t can be pressed: disabled = {isAdding} is off.
CanSubmit(t) == ENABLED (\E fails \in BOOLEAN : AddSubmit(t, fails) /\ Ran(t))

\* In every state the flag of a tab is set exactly when its insert call is
\* pending, and the submit button cannot be pressed while the flag is set.
FlagWhileSent ==
    \A t \in open :
        /\ isAdding[t] <=> addReq[t].st = "sent"
        /\ isAdding[t] => ~CanSubmit(t)

\* The steps of handleAddBookmark: a submit that passes validation sets the
\* flag, sends the call and keeps both inputs; a refused submit leaves the
\* flag off and keeps both inputs; the return of the call resets the flag,
\* after an error with both inputs kept, after a success with both empty.
\* No other step sets the flag, and no other handler step changes an input.
FlagSteps ==
    \A t \in Tabs :
        /\ AddStarts(t) =>
              /\ title'[t] = title[t] /\ url'[t] = url[t]
              /\ IF Trim(title[t]) # <<>> /\ isValidUrl(FinalUrl(url[t]))
                 THEN isAdding'[t] /\ addReq'[t].st = "sent"
                 ELSE ~isAdding'[t] /\ addReq'[t].st = "idle"
        /\ (~isAdding[t] /\ isAdding'[t]) =>
              /\ AddStarts(t)
              /\ Trim(title[t]) # <<>> /\ isValidUrl(FinalUrl(url[t]))
        /\ ( /\ tick'[t] # tick[t] /\ delReq'[t] = delReq[t]
             /\ addReq[t].st = "sent" ) =>
              /\ ~isAdding'[t] /\ addReq'[t].st = "idle"
              /\ IF addReq[t].error
                 THEN title'[t] = title[t] /\ url'[t] = url[t]
                 ELSE title'[t] = <<>> /\ url'[t] = <<>>
        /\ ( /\ tick'[t] # tick[t]
             /\ title'[t] # title[t] \/ url'[t] # url[t] ) =>
              /\ addReq[t].st = "sent" /\ ~addReq[t].error
              /\ delReq'[t] = delReq[t]

\* C21: the adding flag is set exactly while the insert call is pending: it
\* is set only by a submit that passed validation, reset when the call
\* returns with or without an error, the submit button cannot be pressed
\* while it is set, and the title and url inputs are emptied by a successful
\* return only (kept by a refused submit and by a failed call).
C21_FlagWhileInFlight == []FlagWhileSent /\ [][FlagSteps]_vars

\* C21's case: an insert call that was sent with a title and an address has
\* returned without an error: the flag is off again and both inputs are
\* empty (no input of the form is the empty text).
C21_Witness ==
    /\ toast["A"] = "Bookmark added!"
    /\ ~isAdding["A"]
    /\ addReq["A"].st = "idle"
    /\ title["A"] = <<>>
    /\ url["A"] = <<>>
    /\ ~untouched["A"]

----------------------------------------------------------------------------
(* Properties of the life of a view (SpecMount) *)

\* C14: a view never holds more than one postgres_changes channel, and a tab
\* whose view is unmounted holds none: every channel the effect opened has
\* been removed by the cleanup, on unmount and when the effect runs again.
\* (postgres_changes is the only subscription DashboardClient opens.)
C14_ChannelsReleased ==
    \A t \in Tabs :
        /\ subs[t] <= 1
        /\ t \notin open => subs[t] = 0 /\ t \notin joined /\ feed[t] = {}
        /\ t \in open => subs[t] = 1

\* C14's case: tab A was mounted, got an event in flight, and is unmounted
\* again while tab B is mounted.
C14_Witness ==
    /\ "A" \notin open
    /\ "B" \in open
    /\ feed["B"] # {}
    /\ nextId > 1 /\ db = {}

----------------------------------------------------------------------------
(* Properties of the filtered list (SpecFilter) *)

\* Two characters are the same letter, whatever their case.
SameLetter(c, d) == c = d \/ <<c, d>> \in CasePairs \/ <<d, c>> \in CasePairs

\* q occurs in text as a run of characters, case not counted.
Occurs(q, text) ==
    \E i \in 0..(Len(text) - Len(q)) :
        \A k \in 1..Len(q) : SameLetter(text[i + k], q[k])

\* The positions of the list whose title or address holds q.
Hits(list, q) ==
    { i \in 1..Len(list) : Occurs(q, list[i].title) \/ Occurs(q, list[i].url) }

\* C15: the filtered list has exactly the entries of the list whose title or
\* address holds the query, case not counted, each once and in the order of
\* the list; for the empty query it is the list.
C15_FilteredView ==
    LET list == bookmarks["A"]
        q == search["A"]
        view == filteredBookmarks(list, q)
        hits == Hits(list, q)
    IN  /\ Len(view) = Cardinality(hits)
        /\ \A k \in 1..Len(view) :
               view[k] = list[CHOOSE i \in hits : Cardinality({ j \in hits : j < i }) = k - 1]
        /\ q = <<>> => view = list

\* C15's case: a query in upper case matches the second of two entries by
\* its address and the first by nothing.
C15_Witness ==
    /\ search["A"] = <<"C", ".">>
    /\ Len(bookmarks["A"]) = 2
    /\ Hits(bookmarks["A"], search["A"]) = {2}

----------------------------------------------------------------------------
(* Properties of the list among several users (SpecOwners) *)

\* C16: every entry of a tab's list is a row of the tab's user, whatever
\* rows other users hold, add or delete.
C16_OwnRecordsOnly ==
    \A t \in Tabs : \A i \in 1..Len(bookmarks[t]) : bookmarks[t][i].user_id = User

\* C16's case: Other has added a row to the table, and tab A lists a row of
\* its user after it handled a push event or sent a call.
C16_Witness ==
    /\ "A" \in open
    /\ \E r \in db : r.user_id = Other /\ r.title = OtherTitle
    /\ bookmarks["A"] # <<>>
    /\ ~untouched["A"]

----------------------------------------------------------------------------
(* Properties of the tabs without the push feed (SpecDown) *)

\* C17: in a tab whose channel is not connected a valid submit and a delete
\* are accepted and every call that was sent returns, and once the calls have
\* returned the tab shows the rows of the table: its last list with what the
\* tabs of the browser added and deleted since.
C17_FeedLossHarmless ==
    \A t \in open \ joined :
        /\ ( /\ ~isAdding[t] /\ Trim(title[t]) # <<>>
             /\ isValidUrl(FinalUrl(url[t])) )
               => ENABLED (AddSubmit(t, FALSE) /\ Rest)
        /\ addReq[t].st = "sent" => ENABLED (AddReturn(t) /\ Rest)
        /\ \A id \in IdsOf(bookmarks[t]) :
               (\A r \in delReq[t] : r.id # id)
                   => ENABLED (DeleteSubmit(t, id, FALSE) /\ Rest)
        /\ \A r \in delReq[t] : ENABLED (DeleteReturn(t, r) /\ Rest)
        /\ CallsReturned => IdsOf(bookmarks[t]) = IdsOf(OrderDesc(Visible(User)))

----------------------------------------------------------------------------
(* Properties of a BookmarkCard (SpecCard) *)

\* C18: a card sends a delete call only from its confirmation and while none
\* of its calls is in flight; the click that opens the confirmation and the
\* click on Cancel send none; so a card never has two calls in flight.
C18_ConfirmThenDelete ==
    [][\A t \in Tabs : \A id \in Ids :
          /\ card'[t][id].calls > card[t][id].calls
                 => /\ card[t][id].showConfirm
                    /\ ~card[t][id].isDeleting
                    /\ card[t][id].calls = 0
          /\ (~card[t][id].showConfirm /\ card'[t][id].showConfirm)
                 => delReq' = delReq /\ db' = db /\ feed' = feed
          /\ (card[t][id].showConfirm /\ ~card'[t][id].showConfirm)
                 => delReq'[t] \subseteq delReq[t] /\ db' = db
          /\ delReq'[t] \ delReq[t] # {}
                 => \E i \in Ids : card[t][i].showConfirm /\ card'[t][i].calls = 1
          /\ card'[t][id].calls <= 1
      ]_vars

\* C18's case: the card of row 1 has a call in flight and shows its
\* confirmation with the button disabled; the card of row 2 shows its
\* confirmation and has sent nothing.
C18_Witness ==
    /\ card["A"][1].isDeleting /\ card["A"][1].showConfirm
    /\ card["A"][1].calls = 1
    /\ card["A"][2].showConfirm /\ ~card["A"][2].isDeleting
    /\ toast["A"] = NoToast

----------------------------------------------------------------------------
(* Properties of the DELETE handler (SpecDelete) *)

\* The position of the entry with id in a list that holds it.
PlaceOf(list, id) == CHOOSE k \in 1..Len(list) : list[k].id = id

\* C19: the step that applies a push DELETE event takes the entry with the
\* event's id out of the list and nothing else, whatever else the old record
\* holds: the other entries stay, as they were and in their order; an event
\* without an id leaves the list as it was.
C19_DeleteByIdOnly ==
    [][ Len(log') > Len(log) =>
          LET e == log'[Len(log')]
              old == bookmarks["A"]
              new == bookmarks'["A"]
          IN  /\ IdsOf(new) = IdsOf(old) \ {e.id}
              /\ Len(new) = Cardinality(IdsOf(new))
              /\ \A k \in 1..Len(new) : new[k] = old[PlaceOf(old, new[k].id)]
              /\ \A j, k \in 1..Len(new) :
                     j < k => PlaceOf(old, new[j].id) < PlaceOf(old, new[k].id)
              /\ e.id = NoId => new = old
      ]_vars

\* C19's case: an event whose old record has no id but the url of an entry
\* was applied to a list of two entries, after an event with a whole row.
C19_Witness ==
    /\ Len(log) = 2
    /\ log[1].id # NoId /\ "url" \in DOMAIN log[1].row
    /\ log[2].id = NoId /\ "url" \in DOMAIN log[2].row
    /\ Len(start) = 2
    /\ \E k \in 1..Len(bookmarks["A"]) : bookmarks["A"][k].url = log[2].row.url

----------------------------------------------------------------------------
(* Properties of the list under a feed that loses nothing (SpecDelivered) *)

\* C20: when every call has returned and every push event has been handed
\* over for the last time, so that nothing changes any more unless the user
\* acts again, the ids of an open tab's list are the ids of the user's rows
\* in the table.
C20_Converges ==
    Settled => \A t \in open : IdsOf(bookmarks[t]) = { r.id : r \in Visible(User) }

====
